---- MODULE Spec2Model ----
(***************************************************************************)
(* A model of the User Access Control API (phatneglo/uac-python-fastapi):  *)
(* the user store, registration and login of app/routers/auth, the role    *)
(* guards of app/utils/permissions and the admin endpoints of              *)
(* app/routers/admin.                                                      *)
(*                                                                         *)
(* Python strings that the code splits and trims (role strings) are        *)
(* sequences of one-character strings; names, emails and messages, which   *)
(* the code only compares, are TLA+ strings.                               *)
(***************************************************************************)
EXTENDS Integers, Sequences, FiniteSets, TLC

\* users:   the rows of the users table, in user_id order.
\* resp:    the response to the last request handled.
\* now:     the clock, in minutes.
\* pending: the registration requests in flight, which have passed the
\*          duplicate checks and have not yet inserted their row.
VARIABLES users, resp, now, pending

vars == <<users, resp, now, pending>>

----------------------------------------------------------------------------
(* Bounds of the model.                                                    *)

\* Longest role string drawn as an arbitrary stored value.
MaxRoleLen == 4

\* The clock advances by ClockStep minutes at a time, up to MaxTime.
ClockStep == 30
MaxTime == 61

----------------------------------------------------------------------------
(* Values.                                                                 *)

\* Python's None for a nullable string column.
None == <<"None">>

\* The characters role strings are drawn from: the three codes, a digit
\* that is no code, the separator and a blank.
RoleChars == {"1", "2", "3", "5", ",", " "}

Whitespace == {" "}

RoleStrings == UNION {[1..n -> RoleChars] : n \in 0..MaxRoleLen}

\* class UserRole(Enum)
ADMIN == <<"1">>
MANAGER == <<"2">>
GENERAL_USER == <<"3">>

----------------------------------------------------------------------------
(* Python string operations the code uses.                                 *)

\* bool(s) of an Optional[str]: None and "" are falsy.
Truthy(s) == s # None /\ s # <<>>

\* s.split(sep): always at least one segment; "" splits to [""].
RECURSIVE split(_, _)
split(s, sep) ==
    IF \A i \in 1..Len(s) : s[i] # sep
    THEN <<s>>
    ELSE LET i == CHOOSE k \in 1..Len(s) :
                      s[k] = sep /\ \A j \in 1..(k - 1) : s[j] # sep
         IN  <<SubSeq(s, 1, i - 1)>> \o split(SubSeq(s, i + 1, Len(s)), sep)

RECURSIVE lstrip(_)
lstrip(s) ==
    IF s # <<>> /\ Head(s) \in Whitespace THEN lstrip(Tail(s)) ELSE s

RECURSIVE rstrip(_)
rstrip(s) ==
    IF s # <<>> /\ s[Len(s)] \in Whitespace
    THEN rstrip(SubSeq(s, 1, Len(s) - 1))
    ELSE s

\* s.strip()
strip(s) == rstrip(lstrip(s))

\* [role.strip() for role in s.split(',')]
StripEach(segs) == [i \in DOMAIN segs |-> strip(segs[i])]

----------------------------------------------------------------------------
(* The user store: the users table, indexed by user_id (a serial primary   *)
(* key; no operation deletes a row).                                       *)

\* get_password_hash of app/utils/security, which is not among the sources:
\* a one-way function of the plaintext.
get_password_hash(password) == <<"hash", password>>

\* User(...): the columns of the users table the code reads or writes.
\* last_login 0 is NULL.
User(user_id, username, email, password, user_level_id) ==
    [user_id |-> user_id, username |-> username, email |-> email,
     password_hash |-> get_password_hash(password), is_active |-> TRUE,
     user_level_id |-> user_level_id, last_login |-> 0]

\* The result None of a lookup that finds no row.
NoUser == [User(0, "", "", "", None) EXCEPT !.is_active = FALSE]

\* seed_test_users: the two rows the application inserts at startup.
SeedUsers ==
    << User(1, "test_admin_user", "test_admin@example.com", "adminpass123", ADMIN),
       User(2, "test_manager_user", "test_manager@example.com", "managerpass123",
            MANAGER) >>

\* The names, addresses and passwords registration requests are drawn from:
\* those of a seeded user and fresh ones.  The store grows by one row for
\* each fresh name.
Usernames == {"test_admin_user", "alice"}
Emails == {"test_admin@example.com", "alice@x.com", "bob@x.com"}
Passwords == {"password123"}

\* A request body may carry fields UserCreate does not declare, which
\* validation drops: a user_level_id asking for a role.
RequestedRoles == {ADMIN, GENERAL_USER}

\* The exception scalar_one_or_none raises when more than one row matches,
\* as the value of the lookup.
MultipleResultsFound == [NoUser EXCEPT !.user_id = -1]

\* select(User).where(cond) ... scalar_one_or_none()
ScalarOneOrNone(db, Match(_)) ==
    LET rows == {i \in DOMAIN db : Match(db[i])}
    IN  IF rows = {} THEN NoUser
        ELSE IF \E i, j \in rows : i # j THEN MultipleResultsFound
        ELSE db[CHOOSE i \in rows : TRUE]

\* get_user_by_username filtering on the email column.
get_user_by_username_on_email(db, username) ==
    LET Match(u) == u.email = username IN ScalarOneOrNone(db, Match)

get_user_by_username(db, username) ==
    LET Match(u) == u.username = username IN ScalarOneOrNone(db, Match)

\* get_user_by_email filtering on the username column.
get_user_by_email_on_username(db, email) ==
    LET Match(u) == u.username = email IN ScalarOneOrNone(db, Match)

get_user_by_email(db, email) ==
    LET Match(u) == u.email = email IN ScalarOneOrNone(db, Match)

get_user_by_username_or_email(db, identifier) ==
    LET Match(u) == u.username = identifier \/ u.email = identifier
    IN  ScalarOneOrNone(db, Match)

\* The lookup of the target taking user_id for a zero-based row offset.
get_user_by_offset(db, user_id) ==
    LET Match(u) == u.user_id = user_id - 1 IN ScalarOneOrNone(db, Match)

get_user_by_id(db, user_id) ==
    LET Match(u) == u.user_id = user_id IN ScalarOneOrNone(db, Match)

----------------------------------------------------------------------------
(* Tokens.  The Authorization header of a request is absent or carries a   *)
(* bearer token; a token carries its subject and its expiry, and valid     *)
(* says whether its signature verifies.                                    *)

\* settings.access_token_expire_minutes
access_token_expire_minutes == 30

NoCredentials == [scheme |-> "", sub |-> "", valid |-> FALSE, exp |-> 0]

\* create_access_token of app/utils/security, which is not among the
\* sources: a signed token for the subject, expiring expires_delta minutes
\* from now.
create_access_token(sub, expires_delta) ==
    [scheme |-> "Bearer", sub |-> sub, valid |-> TRUE,
     exp |-> now + expires_delta]

\* A bearer token for the subject issued now, with a signature that
\* verifies or not.
Bearer(sub, valid) ==
    [create_access_token(sub, access_token_expire_minutes)
         EXCEPT !.valid = valid]

----------------------------------------------------------------------------
(* Responses.  Every response is a record of the same shape: the status,   *)
(* the detail of an HTTPException, and the fields of the bodies the        *)
(* endpoints return (unset fields keep their defaults).  body is the list  *)
(* of user records a response carries.                                     *)

HTTPException(status_code, detail) ==
    [op |-> "", status |-> status_code, detail |-> detail,
     role |-> None, user_id |-> 0, username |-> "", email |-> "",
     user_level_id |-> None, roles |-> <<>>, new_roles |-> None,
     assigned_by |-> "", access_level |-> "", body |-> <<>>,
     access_token |-> NoCredentials, token_type |-> "", expires_in |-> 0]

OK(status_code) == HTTPException(status_code, "")

NoResponse == [HTTPException(0, "") EXCEPT !.op = "none"]

\* The outcome of a dependency: the user it yields, or the exception it raises.
Yield(user) == [ok |-> TRUE, user |-> user, exc |-> OK(200)]
Raise(exc) == [ok |-> FALSE, user |-> NoUser, exc |-> exc]

----------------------------------------------------------------------------
(* get_current_user.                                                       *)

\* verify_token of app/utils/security, which is not among the sources: the
\* subject of a token whose signature verifies and whose expiry has not
\* passed, None (here "") otherwise.
verify_token(token) ==
    IF token.valid /\ now <= token.exp THEN token.sub ELSE ""

\* security = HTTPBearer(auto_error=False): a request without a bearer
\* Authorization header reaches get_current_user, which finds no token to
\* verify.
security_no_auto_error(credentials) ==
    IF credentials.scheme # "Bearer"
    THEN Raise(HTTPException(401, "Could not validate credentials"))
    ELSE Yield(NoUser)

\* security = HTTPBearer(): a request without a bearer Authorization header
\* is refused before get_current_user runs.
security(credentials) ==
    IF credentials.scheme # "Bearer"
    THEN Raise(HTTPException(403, "Not authenticated"))
    ELSE Yield(NoUser)

\* get_current_user refusing a token issued before the user's last login.
get_current_user_latest_token_only(db, credentials) ==
    LET credentials_exception ==
            HTTPException(401, "Could not validate credentials")
        username == verify_token(credentials)
        user == get_user_by_username(db, username)
    IN  IF ~security(credentials).ok THEN security(credentials)
        ELSE IF username = "" THEN Raise(credentials_exception)
        ELSE IF user = NoUser THEN Raise(credentials_exception)
        ELSE IF credentials.exp - access_token_expire_minutes < user.last_login
             THEN Raise(credentials_exception)
        ELSE IF ~user.is_active
             THEN Raise(HTTPException(400, "Inactive user"))
        ELSE Yield(user)

\* get_current_user without its is_active test.
get_current_user_no_active_check(db, credentials) ==
    LET credentials_exception ==
            HTTPException(401, "Could not validate credentials")
        username == verify_token(credentials)
        user == get_user_by_username(db, username)
    IN  IF ~security(credentials).ok THEN security(credentials)
        ELSE IF username = "" THEN Raise(credentials_exception)
        ELSE IF user = NoUser THEN Raise(credentials_exception)
        ELSE Yield(user)

get_current_user(db, credentials) ==
    LET credentials_exception ==
            HTTPException(401, "Could not validate credentials")
        username == verify_token(credentials)
        user == get_user_by_username(db, username)
    IN  IF ~security(credentials).ok THEN security(credentials)
        ELSE IF username = "" THEN Raise(credentials_exception)
        ELSE IF user = NoUser THEN Raise(credentials_exception)
        ELSE IF ~user.is_active
             THEN Raise(HTTPException(400, "Inactive user"))
        ELSE Yield(user)

----------------------------------------------------------------------------
(* app/utils/permissions.py                                                *)

\* RoleChecker.__init__: the allowed roles as a list of code strings.
RoleChecker_init(allowed_roles) == allowed_roles

\* RoleChecker.__call__ comparing the segments without trimming them.
RoleChecker_NoStrip(allowed_roles, dep) ==
    IF ~dep.ok THEN dep
    ELSE LET current_user == dep.user IN
         IF ~Truthy(current_user.user_level_id)
         THEN Raise(HTTPException(403, "User has no assigned role"))
         ELSE LET user_roles == split(current_user.user_level_id, ",")
              IN  IF ~(\E i \in DOMAIN user_roles :
                          \E j \in DOMAIN allowed_roles :
                              user_roles[i] = allowed_roles[j])
                  THEN Raise(HTTPException(403, "Insufficient permissions"))
                  ELSE Yield(current_user)

\* RoleChecker.__call__ testing for an empty role string after trimming it.
RoleChecker_strip_first(allowed_roles, dep) ==
    IF ~dep.ok THEN dep
    ELSE LET current_user == dep.user IN
         IF \/ ~Truthy(current_user.user_level_id)
            \/ strip(current_user.user_level_id) = <<>>
         THEN Raise(HTTPException(403, "User has no assigned role"))
         ELSE LET user_roles ==
                      StripEach(split(current_user.user_level_id, ","))
              IN  IF ~(\E i \in DOMAIN user_roles :
                          \E j \in DOMAIN allowed_roles :
                              user_roles[i] = allowed_roles[j])
                  THEN Raise(HTTPException(403, "Insufficient permissions"))
                  ELSE Yield(current_user)

\* RoleChecker.__call__, on the outcome of Depends(get_current_user).
RoleChecker(allowed_roles, dep) ==
    IF ~dep.ok THEN dep
    ELSE LET current_user == dep.user IN
         IF ~Truthy(current_user.user_level_id)
         THEN Raise(HTTPException(403, "User has no assigned role"))
         ELSE LET user_roles ==
                      StripEach(split(current_user.user_level_id, ","))
              IN  IF ~(\E i \in DOMAIN user_roles :
                          \E j \in DOMAIN allowed_roles :
                              user_roles[i] = allowed_roles[j])
                  THEN Raise(HTTPException(403, "Insufficient permissions"))
                  ELSE Yield(current_user)

\* require_admin built with UserRole.MANAGER as well.
require_admin_or_manager(db, credentials) ==
    RoleChecker(RoleChecker_init(<<ADMIN, MANAGER>>),
                get_current_user(db, credentials))

require_admin(db, credentials) ==
    RoleChecker(RoleChecker_init(<<ADMIN>>), get_current_user(db, credentials))

\* require_manager_or_admin built without UserRole.ADMIN.
require_manager_only(db, credentials) ==
    RoleChecker(RoleChecker_init(<<MANAGER>>), get_current_user(db, credentials))

require_manager_or_admin(db, credentials) ==
    RoleChecker(RoleChecker_init(<<ADMIN, MANAGER>>),
                get_current_user(db, credentials))

require_any_role(db, credentials) ==
    RoleChecker(RoleChecker_init(<<ADMIN, MANAGER, GENERAL_USER>>),
                get_current_user(db, credentials))

\* get_user_roles returning the segments untrimmed.
get_user_roles_untrimmed(user) ==
    IF ~Truthy(user.user_level_id)
    THEN <<>>
    ELSE split(user.user_level_id, ",")

get_user_roles(user) ==
    IF ~Truthy(user.user_level_id)
    THEN <<>>
    ELSE StripEach(split(user.user_level_id, ","))

has_role(user, role) ==
    LET role_value == role
        user_roles == get_user_roles(user)
    IN  \E i \in DOMAIN user_roles : user_roles[i] = role_value

\* has_any_role comparing the segments without trimming them.
has_any_role_untrimmed(user, roles) ==
    LET role_values == roles
        user_roles == get_user_roles_untrimmed(user)
    IN  \E i \in DOMAIN user_roles :
            \E j \in DOMAIN role_values : user_roles[i] = role_values[j]

has_any_role(user, roles) ==
    LET role_values == roles
        user_roles == get_user_roles(user)
    IN  \E i \in DOMAIN user_roles :
            \E j \in DOMAIN role_values : user_roles[i] = role_values[j]

----------------------------------------------------------------------------
(* app/services/user_service.py and app/routers/auth.py: registration.     *)
(* A handler is a function of the store and the request; it gives the      *)
(* store it commits and the response.                                      *)

Result(db, response) == [db |-> db, resp |-> response]

\* The users table with a UNIQUE constraint on username only.
IntegrityError_username_only(db, row) ==
    \E i \in DOMAIN db : db[i].username = row.username

\* The UNIQUE constraints of the users table on username and on email.
IntegrityError(db, row) ==
    \E i \in DOMAIN db :
        db[i].username = row.username \/ db[i].email = row.email

\* create_user making the first user of a store without an admin an admin.
create_user_first_admin(db, user_data, default_role) ==
    User(Len(db) + 1, user_data.username, user_data.email,
         user_data.password,
         IF \E i \in DOMAIN db :
                \E k \in DOMAIN get_user_roles(db[i]) :
                    get_user_roles(db[i])[k] = ADMIN
         THEN default_role ELSE ADMIN)

\* create_user taking the role from a user_level_id field of the request.
create_user_role_from_request(db, user_data, default_role) ==
    User(Len(db) + 1, user_data.username, user_data.email,
         user_data.password, user_data.user_level_id)

\* UserService.create_user: the row it adds, with the next serial id.
create_user(db, user_data, default_role) ==
    User(Len(db) + 1, user_data.username, user_data.email,
         user_data.password, default_role)

\* UserResponse declaring the password_hash column as well.
UserResponseFields_with_hash ==
    {"username", "email", "user_id", "last_login", "is_active",
     "user_level_id", "password_hash"}

\* class UserResponse(UserBase): the fields it declares, among the columns
\* of the model's rows.
UserResponseFields ==
    {"username", "email", "user_id", "last_login", "is_active",
     "user_level_id"}

\* UserResponse.model_validate(user), from_attributes: the record of the
\* declared fields, read from the row.
model_validate(user) == [f \in UserResponseFields |-> user[f]]

\* A response whose body is UserResponse.model_validate(user).
UserResponse(status_code, user) ==
    [OK(status_code) EXCEPT !.user_id = user.user_id,
                            !.username = user.username,
                            !.email = user.email,
                            !.user_level_id = user.user_level_id,
                            !.body = <<model_validate(user)>>]

register(db, user_data) ==
    LET existing_user == get_user_by_username(db, user_data.username)
        existing_email == get_user_by_email(db, user_data.email)
        user == create_user(db, user_data, GENERAL_USER)
    IN  IF existing_user # NoUser
        THEN Result(db, HTTPException(400, "Username already registered"))
        ELSE IF existing_email # NoUser
        THEN Result(db, HTTPException(400, "Email already registered"))
        ELSE IF IntegrityError(db, user)
        THEN Result(db, HTTPException(400,
                 "User registration failed due to data conflict"))
        ELSE Result(Append(db, user), UserResponse(201, user))

\* register up to its duplicate checks: the exception they raise, or none
\* (status 0) when the request passes them.
register_checks(db, user_data) ==
    LET existing_user == get_user_by_username(db, user_data.username)
        existing_email == get_user_by_email(db, user_data.email)
    IN  IF existing_user # NoUser
        THEN HTTPException(400, "Username already registered")
        ELSE IF existing_email # NoUser
        THEN HTTPException(400, "Email already registered")
        ELSE OK(0)

\* The try block of register without its except clause: the IntegrityError
\* reaches the framework.
register_create_unhandled(db, user_data) ==
    LET user == create_user(db, user_data, GENERAL_USER)
    IN  IF IntegrityError(db, user)
        THEN Result(db, HTTPException(500, "Internal Server Error"))
        ELSE Result(Append(db, user), UserResponse(201, user))

\* register from its try block on: the insert, on the store as it is when
\* the row is flushed; on IntegrityError the transaction is rolled back.
register_create(db, user_data) ==
    LET user == create_user(db, user_data, GENERAL_USER)
    IN  IF IntegrityError(db, user)
        THEN Result(db, HTTPException(400,
                 "User registration failed due to data conflict"))
        ELSE Result(Append(db, user), UserResponse(201, user))

----------------------------------------------------------------------------
(* Login.                                                                  *)

\* verify_password of app/utils/security, which is not among the sources:
\* the hash is that of the plaintext.
verify_password(plain_password, hashed_password) ==
    get_password_hash(plain_password) = hashed_password

\* UserService.authenticate_user: the user, None (NoUser), or the
\* exception of the lookup, which it does not catch.
authenticate_user(db, username, password) ==
    LET user == get_user_by_username_or_email(db, username)
    IN  IF user = MultipleResultsFound THEN MultipleResultsFound
        ELSE IF user = NoUser THEN NoUser
        ELSE IF ~verify_password(password, user.password_hash) THEN NoUser
        ELSE IF ~user.is_active THEN NoUser
        ELSE user

\* update_last_login as an UPDATE without its WHERE clause.
update_last_login_every_row(db, user) ==
    [i \in DOMAIN db |-> [db[i] EXCEPT !.last_login = now]]

\* UserService.update_last_login: user.last_login = func.now()
update_last_login(db, user) ==
    [i \in DOMAIN db |->
        IF db[i].user_id = user.user_id
        THEN [db[i] EXCEPT !.last_login = now]
        ELSE db[i]]

\* Token(access_token=..., token_type="bearer", expires_in=...)
Token(access_token, token_type, expires_in) ==
    [OK(200) EXCEPT !.access_token = access_token,
                    !.token_type = token_type,
                    !.expires_in = expires_in]

\* login putting the identifier of the request in the token.
login_subject_identifier(db, user_credentials) ==
    LET user == authenticate_user(db, user_credentials.username,
                                  user_credentials.password)
        access_token == create_access_token(user_credentials.username,
                                            access_token_expire_minutes)
    IN  IF user = MultipleResultsFound
        THEN Result(db, HTTPException(500, "Internal Server Error"))
        ELSE IF user = NoUser
        THEN Result(db, HTTPException(401, "Incorrect username or password"))
        ELSE Result(update_last_login(db, user),
                    Token(access_token, "bearer",
                          access_token_expire_minutes * 60))

\* POST /login.  An exception no handler catches is answered 500.
login(db, user_credentials) ==
    LET user == authenticate_user(db, user_credentials.username,
                                  user_credentials.password)
        access_token_expires == access_token_expire_minutes
        access_token == create_access_token(user.username, access_token_expires)
    IN  IF user = MultipleResultsFound
        THEN Result(db, HTTPException(500, "Internal Server Error"))
        ELSE IF user = NoUser
        THEN Result(db, HTTPException(401, "Incorrect username or password"))
        ELSE Result(update_last_login(db, user),
                    Token(access_token, "bearer",
                          access_token_expire_minutes * 60))

\* POST /login/form
login_form(db, form_data) ==
    LET user == authenticate_user(db, form_data.username, form_data.password)
        access_token_expires == access_token_expire_minutes
        access_token == create_access_token(user.username, access_token_expires)
    IN  IF user = MultipleResultsFound
        THEN Result(db, HTTPException(500, "Internal Server Error"))
        ELSE IF user = NoUser
        THEN Result(db, HTTPException(401, "Incorrect username or password"))
        ELSE Result(update_last_login(db, user),
                    Token(access_token, "bearer",
                          access_token_expire_minutes * 60))

\* GET /me
get_current_user_info(db, credentials) ==
    LET dep == get_current_user(db, credentials)
    IN  IF ~dep.ok THEN Result(db, dep.exc)
        ELSE Result(db, UserResponse(200, dep.user))

----------------------------------------------------------------------------
(* app/routers/admin.py                                                    *)

\* An endpoint whose only work is its guard.
Guarded(db, dep, access_level) ==
    IF ~dep.ok THEN Result(db, dep.exc)
    ELSE Result(db, [OK(200) EXCEPT !.access_level = access_level])

admin_only_endpoint(db, credentials) ==
    Guarded(db, require_admin(db, credentials), "admin")

manager_admin_endpoint(db, credentials) ==
    Guarded(db, require_manager_or_admin(db, credentials), "manager_or_admin")

all_users_endpoint(db, credentials) ==
    Guarded(db, require_any_role(db, credentials), "any_authenticated_user")

get_my_roles(db, credentials) ==
    LET dep == require_any_role(db, credentials)
        current_user == dep.user
    IN  IF ~dep.ok THEN Result(db, dep.exc)
        ELSE Result(db, [OK(200) EXCEPT
                 !.user_id = current_user.user_id,
                 !.username = current_user.username,
                 !.user_level_id = current_user.user_level_id,
                 !.roles = get_user_roles(current_user)])

\* GET /users, response_model=List[UserResponse]
list_all_users(db, credentials) ==
    LET dep == require_manager_or_admin(db, credentials)
    IN  IF ~dep.ok THEN Result(db, dep.exc)
        ELSE Result(db, [OK(200) EXCEPT
                 !.body = [i \in DOMAIN db |-> model_validate(db[i])]])

\* GET /user-levels: the rows of the user_levels table, which the model
\* does not hold.
get_user_levels(db, credentials) ==
    LET dep == require_any_role(db, credentials)
    IN  IF ~dep.ok THEN Result(db, dep.exc)
        ELSE Result(db, OK(200))

\* valid_roles with the empty segment let through.
valid_roles_or_empty == {ADMIN, MANAGER, GENERAL_USER, <<>>}

valid_roles == {ADMIN, MANAGER, GENERAL_USER}

\* The validation loop testing only the first segment.
invalid_roles_first_only(roles) ==
    {i \in {1} : roles[i] \notin valid_roles}

\* The segments "for role in roles: if role not in valid_roles" stops at.
invalid_roles(roles) ==
    {i \in DOMAIN roles : roles[i] \notin valid_roles}

\* The validation loop reporting the last invalid segment.
last_invalid_role(roles) ==
    roles[CHOOSE i \in invalid_roles(roles) :
              \A j \in invalid_roles(roles) : i >= j]

\* The segment the loop raises on: the first invalid one in list order.
first_invalid_role(roles) ==
    roles[CHOOSE i \in invalid_roles(roles) :
              \A j \in invalid_roles(roles) : i <= j]

\* The update storing the trimmed segments joined by commas.
RECURSIVE join(_)
join(roles) ==
    IF Len(roles) = 1 THEN roles[1]
    ELSE roles[1] \o <<",">> \o join(Tail(roles))

update_user_level_id_joined(db, target_user, role_ids) ==
    [i \in DOMAIN db |->
        IF db[i].user_id = target_user.user_id
        THEN [db[i] EXCEPT
                 !.user_level_id = join(StripEach(split(role_ids, ",")))]
        ELSE db[i]]

\* The assignment without its commit: the store keeps the old string.
update_user_level_id_uncommitted(db, target_user, role_ids) == db

\* target_user.user_level_id = role_ids; await db.commit()
update_user_level_id(db, target_user, role_ids) ==
    [i \in DOMAIN db |->
        IF db[i].user_id = target_user.user_id
        THEN [db[i] EXCEPT !.user_level_id = role_ids]
        ELSE db[i]]

\* assign_user_role validating the role string before it looks the target
\* up.
assign_user_role_validate_first(db, credentials, user_id, role_ids) ==
    LET dep == require_admin(db, credentials)
        current_user == dep.user
        target_user == get_user_by_id(db, user_id)
        roles == StripEach(split(role_ids, ","))
    IN  IF ~dep.ok THEN Result(db, dep.exc)
        ELSE IF invalid_roles(roles) # {}
        THEN Result(db, [HTTPException(400, "Invalid role ID")
                             EXCEPT !.role = first_invalid_role(roles)])
        ELSE IF target_user = NoUser
        THEN Result(db, HTTPException(404, "User not found"))
        ELSE Result(update_user_level_id(db, target_user, role_ids),
                    [OK(200) EXCEPT !.user_id = user_id,
                                    !.username = target_user.username,
                                    !.new_roles = role_ids,
                                    !.assigned_by = current_user.username])

assign_user_role(db, credentials, user_id, role_ids) ==
    LET dep == require_admin(db, credentials)
        current_user == dep.user
        target_user == get_user_by_id(db, user_id)
        roles == StripEach(split(role_ids, ","))
    IN  IF ~dep.ok THEN Result(db, dep.exc)
        ELSE IF target_user = NoUser
        THEN Result(db, HTTPException(404, "User not found"))
        ELSE IF invalid_roles(roles) # {}
        THEN Result(db, [HTTPException(400, "Invalid role ID")
                             EXCEPT !.role = first_invalid_role(roles)])
        ELSE Result(update_user_level_id(db, target_user, role_ids),
                    [OK(200) EXCEPT !.user_id = user_id,
                                    !.username = target_user.username,
                                    !.new_roles = role_ids,
                                    !.assigned_by = current_user.username])

----------------------------------------------------------------------------
(* Requests.  Each action handles one request: it draws the request, runs  *)
(* the whole handler on the store and records the response.                *)

\* The credentials a request may carry: none, a token that does not verify,
\* or the token of a user of the store.
Tokens(db) == {Bearer(db[i].username, TRUE) : i \in DOMAIN db}
Credentials(db) ==
    {NoCredentials, Bearer("test_admin_user", FALSE)} \cup Tokens(db)

\* The role_ids an assign-role request proposes: the strings of the tests
\* ("1", "3", "1,2", "5,6"), "2, 3" with a blank, "1,7,9" with its second
\* and third segments invalid, "1," with a trailing separator, and "".
Proposals ==
    { <<"1">>, <<"3">>, <<"1", ",", "2">>, <<"2", ",", " ", "3">>,
      <<"5", ",", "6">>, <<"1", ",", "7", ",", "9">>, <<"1", ",">>, <<>> }

\* The role strings the rows of the store hold.
StoredRoleStrings(db) ==
    {db[i].user_level_id : i \in DOMAIN db} \ {None}

Handle(op, out) ==
    /\ users' = out.db
    /\ resp' = [out.resp EXCEPT !.op = op]
    /\ UNCHANGED <<now, pending>>

\* POST /register
Register(Names, Addresses) ==
    \E username \in Names, email \in Addresses, password \in Passwords,
       user_level_id \in RequestedRoles :
        LET out == register(users, [username |-> username, email |-> email,
                                    password |-> password,
                                    user_level_id |-> user_level_id])
        IN  Handle("register", out)

\* GET /admin-only
AdminOnly(Creds) ==
    \E credentials \in Creds :
        Handle("admin-only", admin_only_endpoint(users, credentials))

\* GET /manager-admin
ManagerAdmin(Creds) ==
    \E credentials \in Creds :
        Handle("manager-admin", manager_admin_endpoint(users, credentials))

\* GET /all-users
AllUsers(Creds) ==
    \E credentials \in Creds :
        Handle("all-users", all_users_endpoint(users, credentials))

\* GET /my-roles
MyRoles(Creds) ==
    \E credentials \in Creds :
        Handle("my-roles", get_my_roles(users, credentials))

\* GET /users
ListUsers(Creds) ==
    \E credentials \in Creds :
        Handle("list-users", list_all_users(users, credentials))

\* GET /me
Me(Creds) ==
    \E credentials \in Creds :
        Handle("me", get_current_user_info(users, credentials))

\* POST /login
Login(Identifiers, Secrets) ==
    \E username \in Identifiers, password \in Secrets :
        Handle("login", login(users, [username |-> username,
                                      password |-> password]))

\* POST /login/form
LoginForm(Identifiers, Secrets) ==
    \E username \in Identifiers, password \in Secrets :
        Handle("login-form", login_form(users, [username |-> username,
                                                password |-> password]))

\* POST /assign-role/{user_id}?role_ids=...
AssignRole(Creds, Ids, RoleIds) ==
    \E credentials \in Creds, user_id \in Ids, role_ids \in RoleIds :
        Handle("assign-role",
               assign_user_role(users, credentials, user_id, role_ids))

----------------------------------------------------------------------------
(* The application: the store as seeded at startup, and any sequence of    *)
(* requests.                                                               *)

Init ==
    /\ users = SeedUsers
    /\ resp = NoResponse
    /\ now = 1
    /\ pending = {}

Next ==
    \/ Register(Usernames, Emails)
    \/ AdminOnly(Credentials(users))
    \/ ManagerAdmin(Credentials(users))
    \/ AllUsers(Credentials(users))
    \/ MyRoles(Credentials(users))
    \/ ListUsers(Credentials(users))
    \/ Me(Credentials(users))
    \/ AssignRole(Credentials(users), 1..(Len(users) + 1), Proposals)

Spec == Init /\ [][Next]_vars

----------------------------------------------------------------------------
(* The role functions on arbitrary stored role strings.  user_level_id is  *)
(* a nullable String(255) column, so a row may hold any string: the second *)
(* row starts with any role string up to MaxRoleLen characters, or NULL.   *)
(* The callers are the users of the store; an assign-role request proposes *)
(* a role string the store holds.                                          *)

InitRoles ==
    /\ \E r \in RoleStrings \cup {None} :
           users = << SeedUsers[1], [SeedUsers[2] EXCEPT !.user_level_id = r] >>
    /\ resp = NoResponse
    /\ now = 1
    /\ pending = {}

NextRoles ==
    \/ AdminOnly(Tokens(users))
    \/ ManagerAdmin(Tokens(users))
    \/ AllUsers(Tokens(users))
    \/ MyRoles(Tokens(users))
    \/ AssignRole(Tokens(users), DOMAIN users, StoredRoleStrings(users))

SpecRoles == InitRoles /\ [][NextRoles]_vars

----------------------------------------------------------------------------
(* Concurrent registrations.  A request handler runs in its own database   *)
(* session: its duplicate checks read the committed rows, and other        *)
(* requests may run between them and its insert.  A registration is two    *)
(* steps: the checks, after which the request is in flight, and the        *)
(* insert with its commit or its rollback.                                 *)

\* The names and addresses concurrent registrations are drawn from: two
\* fresh names and two fresh addresses, so that requests in flight can
\* share the one or the other.
RaceUsernames == Usernames \cup {"bob"}
RaceEmails == Emails

\* POST /register, lines 21-35: the duplicate checks.
RegisterChecks ==
    \E username \in RaceUsernames, email \in RaceEmails,
       password \in Passwords :
        LET user_data == [username |-> username, email |-> email,
                          password |-> password]
            exc == register_checks(users, user_data)
        IN  /\ user_data \notin pending
            /\ IF exc.status # 0
               THEN /\ resp' = [exc EXCEPT !.op = "register"]
                    /\ UNCHANGED pending
               ELSE /\ pending' = pending \cup {user_data}
                    /\ UNCHANGED resp
            /\ UNCHANGED <<users, now>>

\* POST /register, lines 37-46: the insert of a request in flight.
RegisterCreate ==
    \E user_data \in pending :
        LET out == register_create(users, user_data)
        IN  /\ users' = out.db
            /\ resp' = [out.resp EXCEPT !.op = "register"]
            /\ pending' = pending \ {user_data}
            /\ UNCHANGED now

NextRace ==
    \/ RegisterChecks
    \/ RegisterCreate

SpecRace == Init /\ [][NextRace]_vars

----------------------------------------------------------------------------
(* Concurrent role assignments.  assign_user_role reads the target row in  *)
(* its own session, validates the proposal, and only then writes and       *)
(* commits; other requests may commit between its read and its commit.  A  *)
(* request is two steps: the guard, the lookup and the validation, after   *)
(* which it is in flight holding the row as it read it, and the write with *)
(* its commit and its response.                                            *)

\* The requests that may be in flight together.
MaxInFlight == 2

\* The role strings concurrent requests propose: the one the second seeded
\* row holds, single and multi-role ones, and an invalid one.
RaceProposals ==
    { <<"2">>, <<"3">>, <<"1", ",", "2">>, <<"5", ",", "6">> }

\* assign_user_role up to the end of the validation loop: the exception it
\* raises, or status 0 when it reaches the write.
assign_user_role_checks(db, credentials, user_id, role_ids) ==
    LET dep == require_admin(db, credentials)
        target_user == get_user_by_id(db, user_id)
        roles == StripEach(split(role_ids, ","))
    IN  IF ~dep.ok THEN dep.exc
        ELSE IF target_user = NoUser
        THEN HTTPException(404, "User not found")
        ELSE IF invalid_roles(roles) # {}
        THEN [HTTPException(400, "Invalid role ID")
                  EXCEPT !.role = first_invalid_role(roles)]
        ELSE OK(0)

\* The request in flight after its checks: the caller and the target as
\* this session loaded them, and the proposal.
AssignRequest(db, credentials, user_id, role_ids) ==
    [current_user |-> require_admin(db, credentials).user,
     target_user |-> get_user_by_id(db, user_id),
     user_id |-> user_id,
     role_ids |-> role_ids]

\* target_user.user_level_id = role_ids; await db.commit(), on an object
\* loaded earlier in the session.  The session's unit of work compares the
\* assigned value with the value it loaded and emits the UPDATE only when
\* they differ; the UPDATE sets the whole column of the row with that
\* primary key.
flush_user_level_id(db, target_user, role_ids) ==
    IF role_ids = target_user.user_level_id
    THEN db
    ELSE update_user_level_id(db, target_user, role_ids)

\* assign_user_role from the write on, on the store as it is at the commit.
assign_user_role_commit(db, request) ==
    Result(flush_user_level_id(db, request.target_user, request.role_ids),
           [OK(200) EXCEPT !.user_id = request.user_id,
                           !.username = request.target_user.username,
                           !.new_roles = request.role_ids,
                           !.assigned_by = request.current_user.username])

\* POST /assign-role/{user_id}, lines 116-145: guard, lookup, validation.
AssignChecks ==
    \E credentials \in Tokens(users) \cup {NoCredentials},
       user_id \in 1..(Len(users) + 1), role_ids \in RaceProposals :
        LET exc == assign_user_role_checks(users, credentials, user_id,
                                           role_ids)
            request == AssignRequest(users, credentials, user_id, role_ids)
        IN  /\ Cardinality(pending) < MaxInFlight
            /\ IF exc.status # 0
               THEN /\ resp' = [exc EXCEPT !.op = "assign-role"]
                    /\ UNCHANGED pending
               ELSE /\ request \notin pending
                    /\ pending' = pending \cup {request}
                    /\ UNCHANGED resp
            /\ UNCHANGED <<users, now>>

\* POST /assign-role/{user_id}, lines 147-158: the write of a request in
\* flight, its commit and its response.
AssignCommit ==
    \E request \in pending :
        LET out == assign_user_role_commit(users, request)
        IN  /\ users' = out.db
            /\ resp' = [out.resp EXCEPT !.op = "assign-role"]
            /\ pending' = pending \ {request}
            /\ UNCHANGED now

NextAssignRace ==
    \/ AssignChecks
    \/ AssignCommit

SpecAssignRace == Init /\ [][NextAssignRace]_vars

----------------------------------------------------------------------------
(* Login and the authentication of requests.  is_active is a column the    *)
(* application reads and never writes: the second row starts active or     *)
(* not.  A username is any string of 3 to 50 characters, so it may have    *)
(* the form of an email address, that of another user included.  Time      *)
(* passes between requests.                                                *)

AuthUsernames == {"bob", "test_admin@example.com"}
AuthEmails == {"bob@x.com"}

\* The identifiers login requests give: every username and email of the
\* store, and one that is neither.
Identifiers(db) ==
    {db[i].username : i \in DOMAIN db} \cup {db[i].email : i \in DOMAIN db}
        \cup {"nobody"}

\* The passwords login requests give: those of the seeded users and that
\* of the registered ones.
LoginPasswords == {"adminpass123", "managerpass123"} \cup Passwords

\* The times the clock shows up to now.
Past == {t \in 1..now : (t - 1) % ClockStep = 0}

\* The credentials requests present: none, a scheme other than Bearer, a
\* token of the admin whose signature does not verify, and for every user
\* of the store and for a subject without a record a signed token issued
\* at any time up to now.
AuthCredentials(db) ==
    {NoCredentials, [NoCredentials EXCEPT !.scheme = "Basic"],
     Bearer(db[1].username, FALSE)} \cup
    {[Bearer(sub, TRUE) EXCEPT !.exp = t + access_token_expire_minutes] :
        sub \in {db[i].username : i \in DOMAIN db} \cup {"nobody"},
        t \in Past}

Tick ==
    /\ now + ClockStep <= MaxTime
    /\ now' = now + ClockStep
    /\ UNCHANGED <<users, resp, pending>>

InitAuth ==
    /\ \E is_active \in BOOLEAN :
           users = << SeedUsers[1],
                      [SeedUsers[2] EXCEPT !.is_active = is_active] >>
    /\ resp = NoResponse
    /\ now = 1
    /\ pending = {}

NextAuth ==
    \/ Register(AuthUsernames, AuthEmails)
    \/ Login(Identifiers(users), LoginPasswords)
    \/ LoginForm(Identifiers(users), LoginPasswords)
    \/ Me(AuthCredentials(users))
    \/ AdminOnly(AuthCredentials(users))
    \/ ListUsers(AuthCredentials(users))
    \/ Tick

SpecAuth == InitAuth /\ [][NextAuth]_vars

----------------------------------------------------------------------------
(* Properties.                                                             *)

\* Code c is a trimmed segment of role string s, said of the characters of
\* s: some c stands in s with only blanks between it and the separator (or
\* the end of s) on either side.
HasCode(s, c) ==
    /\ s # None
    /\ \E k \in 1..Len(s) :
           /\ s[k] = c
           /\ \E a \in 1..k :
                  /\ a = 1 \/ s[a - 1] = ","
                  /\ \A j \in a..(k - 1) : s[j] = " "
           /\ \E b \in k..Len(s) :
                  /\ b = Len(s) \/ s[b + 1] = ","
                  /\ \A j \in (k + 1)..b : s[j] = " "

TokenOf(user) == Bearer(user.username, TRUE)

\* C1: for every user of the store, the admin-only guard lets the user's
\* request through exactly when "1" is one of the trimmed comma-separated
\* segments of the user's role string; every other user, one with an empty
\* or NULL role string included, is rejected with 403.
C1_AdminOnlyGuard ==
    \A i \in DOMAIN users :
        LET r == admin_only_endpoint(users, TokenOf(users[i])).resp
        IN  /\ r.status = 200 <=> HasCode(users[i].user_level_id, "1")
            /\ r.status # 200 => r.status = 403
            /\ ~Truthy(users[i].user_level_id) => r.status = 403

\* C1 witness: the admin-only endpoint has rejected the user whose role
\* string is NULL.
C1_Witness ==
    /\ resp.op = "admin-only"
    /\ resp.status = 403
    /\ resp.detail = "User has no assigned role"
    /\ users[1].user_level_id = ADMIN
    /\ users[2].user_level_id = None

GuardEndpoint(g, db, credentials) ==
    CASE g = 1 -> admin_only_endpoint(db, credentials).resp
      [] g = 2 -> manager_admin_endpoint(db, credentials).resp
      [] g = 3 -> all_users_endpoint(db, credentials).resp

AllowedCodes(g) ==
    CASE g = 1 -> {"1"}
      [] g = 2 -> {"1", "2"}
      [] g = 3 -> {"1", "2", "3"}

\* C2: each of the three predefined guards rejects a user with a non-empty
\* role string with 403 "Insufficient permissions" exactly when no trimmed
\* segment of the role string is in the guard's allowed set, and passes the
\* user otherwise; so "1" passes all three, "2" fails only admin-only, "3"
\* passes only any-role and "1,2" passes admin-only and manager-or-admin.
C2_PredefinedGuards ==
    \A i \in DOMAIN users : \A g \in 1..3 :
        LET s == users[i].user_level_id
            r == GuardEndpoint(g, users, TokenOf(users[i]))
            Pass(h) == GuardEndpoint(h, users, TokenOf(users[i])).status = 200
        IN  Truthy(s) =>
              /\ (r.status = 403 /\ r.detail = "Insufficient permissions")
                     <=> ~(\E c \in AllowedCodes(g) : HasCode(s, c))
              /\ r.status = 200 <=> (\E c \in AllowedCodes(g) : HasCode(s, c))
              /\ s = ADMIN => Pass(1) /\ Pass(2) /\ Pass(3)
              /\ s = MANAGER => ~Pass(1) /\ Pass(2) /\ Pass(3)
              /\ s = GENERAL_USER => ~Pass(1) /\ ~Pass(2) /\ Pass(3)
              /\ s = <<"1", ",", "2">> => Pass(1) /\ Pass(2)

\* C2 witness: the manager-or-admin endpoint has let a request through while
\* every user of the store has the role string "1,2".
C2_Witness ==
    /\ resp.op = "manager-admin"
    /\ resp.status = 200
    /\ \A i \in DOMAIN users : users[i].user_level_id = <<"1", ",", "2">>

\* The users of the store that hold the admin code, and those that do not.
Admins(db) == {i \in DOMAIN db : HasCode(db[i].user_level_id, "1")}
NonAdmins(db) == DOMAIN db \ Admins(db)

\* The ids an assign-role request may name: those of the store and one more.
TargetIds(db) == 1..(Len(db) + 1)

RoleStringChanged(db, db2) ==
    \E i \in DOMAIN db : db2[i].user_level_id # db[i].user_level_id

\* C3: a step changes a stored role string only if it is an assign-role
\* request answered 200 whose caller held the admin code "1" before the
\* step; and an assign-role request by a user whose roles do not include
\* "1" is answered 403 and leaves the store as it is, whatever its target
\* and proposal.
C3_OnlyAdminAssigns ==
    /\ [](\A i \in NonAdmins(users), user_id \in TargetIds(users),
             role_ids \in Proposals :
             LET out == assign_user_role(users, TokenOf(users[i]), user_id,
                                         role_ids)
             IN  out.resp.status = 403 /\ out.db = users)
    /\ [][RoleStringChanged(users, users') =>
              /\ resp'.op = "assign-role"
              /\ resp'.status = 200
              /\ \E i \in Admins(users) :
                     users[i].username = resp'.assigned_by]_vars

\* C3 witness: an assign-role request of an authenticated user without the
\* admin code has been rejected.
C3_Witness ==
    /\ resp.op = "assign-role"
    /\ resp.status = 403
    /\ resp.detail = "Insufficient permissions"

ValidCodes == {<<"1">>, <<"2">>, <<"3">>}

\* C4: in every state reached from the seeded store by registrations and
\* assign-role requests, each user's role string, split on commas and
\* trimmed, is a non-empty list of segments that are each "1", "2" or "3".
C4_RoleStringsValid ==
    \A i \in DOMAIN users :
        LET segs == StripEach(split(users[i].user_level_id, ","))
        IN  /\ users[i].user_level_id # None
            /\ \A k \in DOMAIN segs : segs[k] \in ValidCodes

\* C4 witness: a registered user has been assigned the roles "2, 3".
C4_Witness ==
    /\ Len(users) = 3
    /\ resp.op = "assign-role"
    /\ resp.status = 200
    /\ users[3].user_level_id = <<"2", ",", " ", "3">>

\* C5: an assign-role request of an admin that names an id of no record is
\* answered 404 "User not found", whatever it proposes, and changes no
\* record of the store.
C5_UnknownTarget ==
    /\ [](\A i \in Admins(users), role_ids \in Proposals :
             LET out == assign_user_role(users, TokenOf(users[i]),
                                         Len(users) + 1, role_ids)
             IN  /\ out.resp.status = 404
                 /\ out.resp.detail = "User not found"
                 /\ out.db = users)
    /\ [][resp'.op = "assign-role" /\ resp'.status = 404
              => users' = users /\ resp'.detail = "User not found"]_vars

\* C5 witness: an assign-role request has been answered 404.
C5_Witness ==
    /\ resp.op = "assign-role"
    /\ resp.status = 404
    /\ resp.detail = "User not found"

\* C6: an assign-role request of an admin for an existing target whose
\* proposal has a trimmed segment that is not "1", "2" or "3" is answered
\* 400 naming the first such segment in input order ("5" for "5,6", "7" for
\* "1,7,9"), and the store, the target's role string included, is unchanged.
C6_FirstInvalidNamed ==
    /\ [](\A i \in Admins(users), t \in DOMAIN users, role_ids \in Proposals :
             LET out == assign_user_role(users, TokenOf(users[i]), t, role_ids)
                 segs == StripEach(split(role_ids, ","))
             IN  /\ (\E k \in DOMAIN segs : segs[k] \notin ValidCodes) =>
                       /\ out.resp.status = 400
                       /\ out.resp.detail = "Invalid role ID"
                       /\ out.db = users
                       /\ \E k \in DOMAIN segs :
                              /\ out.resp.role = segs[k]
                              /\ segs[k] \notin ValidCodes
                              /\ \A j \in 1..(k - 1) : segs[j] \in ValidCodes
                 /\ role_ids = <<"5", ",", "6">> => out.resp.role = <<"5">>
                 /\ role_ids = <<"1", ",", "7", ",", "9">>
                        => out.resp.role = <<"7">>)
    /\ [][resp'.op = "assign-role" /\ resp'.status = 400 => users' = users]_vars

\* C6 witness: an assign-role request has been answered 400 naming "7".
C6_Witness ==
    /\ resp.op = "assign-role"
    /\ resp.status = 400
    /\ resp.role = <<"7">>

\* C7: an assign-role request answered 200 leaves the store equal to the
\* store before it except for the target's role string, which is the
\* proposed string character for character; the response gives the proposed
\* string as new_roles and the calling admin's username as assigned_by; and
\* a my-roles request of the target on the resulting store reports the
\* proposed string as user_level_id.
C7_AssignStoresVerbatim ==
    /\ [](\A i \in Admins(users), t \in DOMAIN users, role_ids \in Proposals :
             LET out == assign_user_role(users, TokenOf(users[i]), t, role_ids)
                 read == get_my_roles(out.db, TokenOf(out.db[t]))
             IN  out.resp.status = 200 =>
                   /\ out.db = [users EXCEPT ![t].user_level_id = role_ids]
                   /\ out.resp.new_roles = role_ids
                   /\ out.resp.user_id = t
                   /\ out.resp.assigned_by = users[i].username
                   /\ read.resp.status = 200
                   /\ read.resp.user_level_id = role_ids
                   /\ read.db = out.db)
    /\ [][resp'.op = "assign-role" /\ resp'.status = 200 =>
              /\ resp'.user_id \in DOMAIN users
              /\ users' = [users EXCEPT
                     ![resp'.user_id].user_level_id = resp'.new_roles]]_vars
    /\ [][resp'.op = "my-roles" /\ resp'.status = 200 =>
              /\ users' = users
              /\ resp'.user_level_id = users[resp'.user_id].user_level_id]_vars

\* C7 witness: the registered user, assigned "2, 3" with its blank, reads
\* the same string back from my-roles.
C7_Witness ==
    /\ Len(users) = 3
    /\ resp.op = "my-roles"
    /\ resp.status = 200
    /\ resp.user_id = 3
    /\ resp.user_level_id = <<"2", ",", " ", "3">>

\* The codes of a role string read off its characters: every character that
\* is neither the separator nor a blank, in order, each as a segment.
RECURSIVE CodesOf(_)
CodesOf(s) ==
    IF s = <<>> THEN <<>>
    ELSE IF Head(s) \in {",", " "} THEN CodesOf(Tail(s))
    ELSE << <<Head(s)>> >> \o CodesOf(Tail(s))

\* C8: after an assign-role request answered 200, the roles read back for
\* the target (get_user_roles, as my-roles reports them) are the codes of
\* the proposed string, whatever blanks it was stored with; for "2, 3" they
\* are "2" and "3".
C8_RoundTrip ==
    /\ [](\A i \in Admins(users), t \in DOMAIN users,
             role_ids \in StoredRoleStrings(users) :
             LET out == assign_user_role(users, TokenOf(users[i]), t, role_ids)
                 read == get_my_roles(out.db, TokenOf(out.db[t])).resp
             IN  out.resp.status = 200 =>
                   /\ read.status = 200
                   /\ read.roles = CodesOf(role_ids)
                   /\ role_ids = <<"2", ",", " ", "3">>
                          => read.roles = << <<"2">>, <<"3">> >>)
    /\ [][resp'.op = "assign-role" /\ resp'.status = 200 =>
              get_user_roles(users'[resp'.user_id])
                  = CodesOf(resp'.new_roles)]_vars

\* C8 witness: the first user, seeded with "1" and since assigned "2, 3",
\* has read the roles "2" and "3" back from my-roles.
C8_Witness ==
    /\ resp.op = "my-roles"
    /\ resp.status = 200
    /\ resp.user_id = 1
    /\ resp.user_level_id = <<"2", ",", " ", "3">>
    /\ resp.roles = << <<"2">>, <<"3">> >>

\* Role string s has a segment that is empty once trimmed, said of the
\* characters of s: a stretch of blanks only, possibly of none, that runs
\* from the start of s or a separator to the end of s or a separator.
HasEmptySegment(s) ==
    \E a \in 1..(Len(s) + 1) : \E b \in (a - 1)..Len(s) :
        /\ a = 1 \/ s[a - 1] = ","
        /\ b = Len(s) \/ s[b + 1] = ","
        /\ \A j \in a..b : s[j] = " "

\* C9 as claimed: a proposal is not failed with InvalidRole on account of
\* an empty trimmed segment.  While the role strings of the store, which
\* are the proposals, are "1" and "1,", no assign-role request is answered
\* 400.
C9_EmptySegmentNotRejected ==
    StoredRoleStrings(users) = {<<"1">>, <<"1", ",">>}
        => ~(resp.op = "assign-role" /\ resp.status = 400)

\* C9 as amended: the validation rejects an empty trimmed segment like any
\* other segment that is no valid code.  An assign-role request of an admin
\* for an existing target whose proposal has an empty trimmed segment is
\* answered 400 and leaves the store unchanged; the proposal "1,", whose
\* only other segment is valid, is answered 400 naming the empty segment.
C9_EmptySegmentRejected ==
    /\ [](\A i \in Admins(users), t \in DOMAIN users,
             role_ids \in StoredRoleStrings(users) :
             LET out == assign_user_role(users, TokenOf(users[i]), t, role_ids)
             IN  /\ HasEmptySegment(role_ids) =>
                       /\ out.resp.status = 400
                       /\ out.resp.detail = "Invalid role ID"
                       /\ out.db = users
                 /\ role_ids = <<"1", ",">> => out.resp.role = <<>>)
    /\ [][resp'.op = "assign-role" /\ resp'.status = 200 =>
              ~HasEmptySegment(resp'.new_roles)]_vars

\* C9 witness: the proposal "1," held by the second user has been answered
\* 400 naming the empty segment.
C9_Witness ==
    /\ resp.op = "assign-role"
    /\ resp.status = 400
    /\ resp.role = <<>>
    /\ users[2].user_level_id = <<"1", ",">>

\* C10: a username once in the store stays in it, and every registration
\* request with a username of the store, whatever its email and password,
\* is answered 400 "Username already registered" and adds no record.
C10_DuplicateUsername ==
    /\ [](\A i \in DOMAIN users, email \in Emails, password \in Passwords :
             LET out == register(users, [username |-> users[i].username,
                                         email |-> email,
                                         password |-> password])
             IN  /\ out.resp.status = 400
                 /\ out.resp.detail = "Username already registered"
                 /\ out.db = users)
    /\ [][/\ \A i \in DOMAIN users :
                 i \in DOMAIN users' /\ users'[i].username = users[i].username
          /\ (resp'.op = "register" /\ resp'.status # 201) => users' = users
          /\ (resp'.op = "register" /\ resp'.status = 201) =>
                 /\ Len(users') = Len(users) + 1
                 /\ \A i \in DOMAIN users :
                        users[i].username # resp'.username]_vars

\* C10 witness: after alice has registered, a registration has been refused
\* for its username.
C10_Witness ==
    /\ Len(users) = 3
    /\ users[3].username = "alice"
    /\ resp.op = "register"
    /\ resp.status = 400
    /\ resp.detail = "Username already registered"

\* C11: every registration request with an email of the store and a
\* username the store does not hold is answered 400 "Email already
\* registered"; with a username of the store and an email of the store
\* (of the same row or of another) it is answered 400 "Username already
\* registered", the username check coming first; neither adds a record.
C11_DuplicateEmail ==
    /\ [](\A i \in DOMAIN users, username \in Usernames,
             password \in Passwords :
             LET out == register(users, [username |-> username,
                                         email |-> users[i].email,
                                         password |-> password])
                 taken == \E j \in DOMAIN users :
                              users[j].username = username
             IN  /\ out.resp.status = 400
                 /\ out.db = users
                 /\ out.resp.detail =
                        IF taken THEN "Username already registered"
                                 ELSE "Email already registered")
    /\ [][resp'.op = "register" /\ resp'.status = 201 =>
              \A i \in DOMAIN users : users[i].email # resp'.email]_vars

\* C11 witness: a registration under the fresh username alice has been
\* refused for an email of the store.
C11_Witness ==
    /\ \A i \in DOMAIN users : users[i].username # "alice"
    /\ resp.op = "register"
    /\ resp.status = 400
    /\ resp.detail = "Email already registered"

\* C14: the row a successful registration adds holds the role string "3"
\* and is active, whatever the request carried, and so does the record
\* returned; with a token of the new user, the any-role endpoint answers
\* 200, and the admin-only and the manager-or-admin endpoints answer 403
\* "Insufficient permissions".
C14_RegisteredAsGeneralUser ==
    [][resp'.op = "register" /\ resp'.status = 201 =>
          LET user == users'[Len(users')]
              token == TokenOf(user)
          IN  /\ Len(users') = Len(users) + 1
              /\ user.username = resp'.username
              /\ user.user_level_id = <<"3">>
              /\ resp'.user_level_id = <<"3">>
              /\ user.is_active
              /\ all_users_endpoint(users', token).resp.status = 200
              /\ admin_only_endpoint(users', token).resp.status = 403
              /\ admin_only_endpoint(users', token).resp.detail =
                     "Insufficient permissions"
              /\ manager_admin_endpoint(users', token).resp.status = 403
              /\ manager_admin_endpoint(users', token).resp.detail =
                     "Insufficient permissions"]_vars

\* C14 witness: alice has just registered and holds "3".
C14_Witness ==
    /\ resp.op = "register"
    /\ resp.status = 201
    /\ resp.username = "alice"
    /\ Len(users) = 3
    /\ users[3].username = "alice"
    /\ users[3].user_level_id = GENERAL_USER

\* C15: no user record of a response has a password or password_hash
\* field, nor has the response itself; a successful registration and /me
\* answer with one user record, the user listing with one for each row.
C15_NoPasswordInResponses ==
    /\ [](\A k \in DOMAIN resp.body :
             {"password", "password_hash"} \cap DOMAIN resp.body[k] = {})
    /\ []({"password", "password_hash"} \cap DOMAIN resp = {})
    /\ [](resp.op \in {"register", "me"} /\ resp.status \in {200, 201}
             => Len(resp.body) = 1)
    /\ [](resp.op = "list-users" /\ resp.status = 200
             => Len(resp.body) = Len(users))

\* C15 witness: a manager or admin has listed the three users of the store.
C15_Witness ==
    /\ resp.op = "list-users"
    /\ resp.status = 200
    /\ Len(resp.body) = 3
    /\ resp.body[3].username = "alice"

\* C12: with registrations interleaved in every way, their checks and
\* their inserts as separate steps, no two rows of the store ever share a
\* username or an email.
C12_UniqueUnderInterleaving ==
    \A i, j \in DOMAIN users :
        i # j => /\ users[i].username # users[j].username
                 /\ users[i].email # users[j].email

\* C12 witness: two requests with the same email and different usernames
\* were in flight together, and one of them has inserted its row.
C12_Witness ==
    /\ Len(users) = 3
    /\ \E user_data \in pending :
           /\ user_data.email = users[3].email
           /\ user_data.username # users[3].username

\* The request in flight whose insert a step runs.
Inserted == CHOOSE user_data \in pending : user_data \notin pending'

\* C13: when a request in flight runs its insert and a row of the store
\* holds its username or its email (a concurrent registration has won),
\* it is answered 400 with the generic conflict message, which is neither
\* duplicate message, the store is left as it was and the request is not
\* run again; when no row holds either, it adds exactly its row and is
\* answered 201.  So of two requests in flight sharing a username or an
\* email, the first to insert creates the record and the other does not.
C13_RaceLoserGetsConflict ==
    [][pending' # pending /\ pending' \subseteq pending =>
          LET lost == \E i \in DOMAIN users :
                          \/ users[i].username = Inserted.username
                          \/ users[i].email = Inserted.email
          IN  /\ pending' = pending \ {Inserted}
              /\ resp'.op = "register"
              /\ lost => /\ resp'.status = 400
                         /\ resp'.detail =
                                "User registration failed due to data conflict"
                         /\ resp'.detail \notin
                                {"Username already registered",
                                 "Email already registered"}
                         /\ users' = users
              /\ ~lost => /\ resp'.status = 201
                          /\ Len(users') = Len(users) + 1
                          /\ SubSeq(users', 1, Len(users)) = users
                          /\ users'[Len(users')].username = Inserted.username
                          /\ users'[Len(users')].email = Inserted.email
                          /\ \A user_data \in pending' :
                                 (\/ user_data.username = Inserted.username
                                  \/ user_data.email = Inserted.email)
                                 => register_create(users', user_data).db
                                        = users']_vars

\* C13 witness: of two requests in flight with the username alice, one has
\* created the record and the other has been answered with the conflict.
C13_Witness ==
    /\ Len(users) = 3
    /\ users[3].username = "alice"
    /\ pending = {}
    /\ resp.op = "register"
    /\ resp.status = 400
    /\ resp.detail = "User registration failed due to data conflict"

\* A row of the store that the login identifier and password stand for:
\* its username or its email is the identifier, its hash is that of the
\* password, and it is active.
Authenticates(u, identifier, password) ==
    /\ u.username = identifier \/ u.email = identifier
    /\ u.password_hash = <<"hash", password>>
    /\ u.is_active

\* C16: for every identifier and password, authenticate_user does not
\* raise; it returns a user exactly when some row of the store has the
\* identifier as its username or email, the password as its password and
\* is active, and the user is then such a row; otherwise it returns None.
C16_AuthenticateExactly ==
    \A identifier \in Identifiers(users), password \in LoginPasswords :
        LET user == authenticate_user(users, identifier, password)
        IN  /\ user # MultipleResultsFound
            /\ user # NoUser <=>
                   \E i \in DOMAIN users :
                       Authenticates(users[i], identifier, password)
            /\ user # NoUser =>
                   /\ \E i \in DOMAIN users : users[i] = user
                   /\ Authenticates(user, identifier, password)

\* C17: on POST /login and on POST /login/form, a request whose identifier
\* and password stand for no active row of the store (no row has the
\* identifier, or the password is wrong, or the row is inactive) is
\* answered 401 "Incorrect username or password", the same response in
\* each case, with no token, and the store is left as it was.
C17_LoginFailuresIdentical ==
    \A identifier \in Identifiers(users), password \in LoginPasswords :
        LET user_credentials == [username |-> identifier,
                                 password |-> password]
            unauthorized ==
                HTTPException(401, "Incorrect username or password")
        IN  (\A i \in DOMAIN users :
                 ~Authenticates(users[i], identifier, password))
            => /\ login(users, user_credentials).resp = unauthorized
               /\ login(users, user_credentials).db = users
               /\ login_form(users, user_credentials).resp = unauthorized
               /\ login_form(users, user_credentials).db = users
               /\ login(users, user_credentials).resp.access_token
                      = NoCredentials
               /\ login_form(users, user_credentials).resp.access_token
                      = NoCredentials

\* The outcomes of a login request on the two endpoints.
Logins(db, identifier, password) ==
    {login(db, [username |-> identifier, password |-> password]),
     login_form(db, [username |-> identifier, password |-> password])}

\* C18: every login answered 200, on either endpoint and with a username
\* or an email as identifier, has token type "bearer" and expires_in 1800
\* (30 minutes in seconds); its token has as subject the username of the
\* one row the identifier and password stand for and expires 30 minutes
\* from now; and presented at GET /me on the store the login leaves, the
\* token is answered 200 with the record of that row.
C18_SuccessfulLogin ==
    /\ [](\A identifier \in Identifiers(users), password \in LoginPasswords :
             \A out \in Logins(users, identifier, password) :
                 out.resp.status = 200 =>
                     \E i \in DOMAIN users :
                         LET me == get_current_user_info(
                                       out.db, out.resp.access_token).resp
                         IN  /\ Authenticates(users[i], identifier, password)
                             /\ out.resp.token_type = "bearer"
                             /\ out.resp.expires_in = 1800
                             /\ out.resp.access_token.sub = users[i].username
                             /\ out.resp.access_token.exp = now + 30
                             /\ me.status = 200
                             /\ me.user_id = i
                             /\ me.username = users[i].username
                             /\ me.email = users[i].email)
    /\ [][resp'.op \in {"login", "login-form"} /\ resp'.status = 200
              /\ resp' # resp =>
              /\ resp'.token_type = "bearer"
              /\ resp'.expires_in = 1800
              /\ resp'.access_token.exp = now + 30
              /\ \E i \in DOMAIN users :
                     /\ users[i].username = resp'.access_token.sub
                     /\ users[i].is_active]_vars

\* C18 witness: bob has logged in on the form endpoint, and a login with
\* bob's email address as identifier succeeds as well.
C18_Witness ==
    /\ resp.op = "login-form"
    /\ resp.status = 200
    /\ resp.access_token.sub = "bob"
    /\ login(users, [username |-> "bob@x.com",
                     password |-> "password123"]).resp.status = 200

\* The rows of the store a token names.
Named(db, token) == {i \in DOMAIN db : db[i].username = token.sub}

\* A bearer token that verifies now: its signature is good and its expiry
\* has not passed.
Verifies(token) == token.scheme = "Bearer" /\ token.valid /\ now <= token.exp

\* C20: GET /me answers 401 "Could not validate credentials" to a bearer
\* token that does not verify and to one that verifies and names no row,
\* with the same response; 403 to a request with no Authorization header
\* or with another scheme; and 200 with the public view of the caller's
\* own row to a token that verifies and names an active row.  The store is
\* unchanged in every case.
C20_Me ==
    \A credentials \in AuthCredentials(users) :
        LET out == get_current_user_info(users, credentials)
            unauthorized ==
                HTTPException(401, "Could not validate credentials")
        IN  /\ out.db = users
            /\ credentials.scheme # "Bearer" => out.resp.status = 403
            /\ credentials.scheme = "Bearer" /\ ~Verifies(credentials)
                   => out.resp = unauthorized
            /\ Verifies(credentials) /\ Named(users, credentials) = {}
                   => out.resp = unauthorized
            /\ \A i \in Named(users, credentials) :
                   Verifies(credentials) /\ users[i].is_active
                   => /\ out.resp.status = 200
                      /\ out.resp.user_id = i
                      /\ out.resp.body =
                             << [user_id |-> i,
                                 username |-> users[i].username,
                                 email |-> users[i].email,
                                 is_active |-> TRUE,
                                 user_level_id |-> users[i].user_level_id,
                                 last_login |-> users[i].last_login] >>

\* C20 witness: a request has been answered 401 at /me at a time when a
\* token issued to bob earlier has expired: it is answered 401, where
\* bob's fresh token is answered 200.
C20_Witness ==
    /\ resp.op = "me"
    /\ resp.status = 401
    /\ resp.detail = "Could not validate credentials"
    /\ \E i \in DOMAIN users, t \in Past :
           /\ users[i].username = "bob"
           /\ t + 30 < now
           /\ get_current_user_info(users, TokenOf(users[i])).resp.status = 200
           /\ get_current_user_info(users,
                  [TokenOf(users[i]) EXCEPT !.exp = t + 30]).resp.status = 401

\* The protected endpoints, and the role codes the guard of each admits
\* (/me has no guard).
ProtectedEndpoints == 1..8

Endpoint(e, db, credentials, user_id, role_ids) ==
    CASE e = 1 -> admin_only_endpoint(db, credentials)
      [] e = 2 -> manager_admin_endpoint(db, credentials)
      [] e = 3 -> all_users_endpoint(db, credentials)
      [] e = 4 -> get_my_roles(db, credentials)
      [] e = 5 -> list_all_users(db, credentials)
      [] e = 6 -> get_user_levels(db, credentials)
      [] e = 7 -> assign_user_role(db, credentials, user_id, role_ids)
      [] e = 8 -> get_current_user_info(db, credentials)

GuardCodes(e) ==
    CASE e \in {1, 7} -> {"1"}
      [] e \in {2, 5} -> {"1", "2"}
      [] e \in {3, 4, 6, 8} -> {"1", "2", "3"}

\* The response of a request stopped before the operation: the exception
\* of the first step it fails, the steps taken in the order token, user,
\* active, guard; none (status 0) for a request that fails no step.
Stopped(e, db, credentials) ==
    LET i == CHOOSE k \in Named(db, credentials) : TRUE
        s == db[i].user_level_id
    IN  IF credentials.scheme # "Bearer"
        THEN HTTPException(403, "Not authenticated")
        ELSE IF ~Verifies(credentials)
        THEN HTTPException(401, "Could not validate credentials")
        ELSE IF Named(db, credentials) = {}
        THEN HTTPException(401, "Could not validate credentials")
        ELSE IF ~db[i].is_active
        THEN HTTPException(400, "Inactive user")
        ELSE IF e # 8 /\ (s = None \/ s = <<>>)
        THEN HTTPException(403, "User has no assigned role")
        ELSE IF e # 8 /\ \A c \in GuardCodes(e) : ~HasCode(s, c)
        THEN HTTPException(403, "Insufficient permissions")
        ELSE OK(0)

\* C19: on every protected endpoint, a request that fails a step of the
\* order verify token, load user, reject inactive, evaluate guard is
\* answered with the exception of the first step it fails and nothing
\* else, and the store is left as it was: the operation does not run.  The
\* operation runs, and answers 200 (or, for assign-role, 404 or 400 for
\* its own checks), exactly for the requests that fail none.
C19_StepsInOrder ==
    \A e \in ProtectedEndpoints, credentials \in AuthCredentials(users) :
    \A user_id \in (IF e = 7 THEN 1..(Len(users) + 1) ELSE {1}),
       role_ids \in (IF e = 7 THEN {ADMIN, <<"5">>} ELSE {ADMIN}) :
        LET out == Endpoint(e, users, credentials, user_id, role_ids)
            stopped == Stopped(e, users, credentials)
        IN  /\ stopped.status # 0 => out.resp = stopped /\ out.db = users
            /\ stopped.status = 0 =>
                   /\ out.resp.status \in
                          IF e = 7 THEN {200, 400, 404} ELSE {200}
                   /\ out.resp.status = 400 => out.resp.role = role_ids
                   /\ out.resp.detail \notin
                          {"Not authenticated", "Inactive user",
                           "Could not validate credentials",
                           "User has no assigned role",
                           "Insufficient permissions"}

\* C19 witness: the inactive manager, whose role the admin-only guard does
\* not admit, has been answered 400 "Inactive user" by the admin-only
\* endpoint, and so is an assign-role request of the manager, which leaves
\* the store as it is.
C19_Witness ==
    /\ resp.op = "admin-only"
    /\ resp.status = 400
    /\ resp.detail = "Inactive user"
    /\ ~users[2].is_active
    /\ ~HasCode(users[2].user_level_id, "1")
    /\ assign_user_role(users, TokenOf(users[2]), 1, GENERAL_USER)
           = Result(users, HTTPException(400, "Inactive user"))

\* C24: each of the three predefined guards answers a user whose role
\* string is NULL or empty with 403 "User has no assigned role" and nothing
\* else, and a user whose non-empty role string has none of the codes "1",
\* "2", "3" as a trimmed segment (a string of blanks or separators, or an
\* unknown code alone) with 403 "Insufficient permissions" and nothing
\* else: the same status, another detail.
C24_NoRoleOrInsufficient ==
    \A i \in DOMAIN users : \A g \in 1..3 :
        LET s == users[i].user_level_id
            r == GuardEndpoint(g, users, TokenOf(users[i]))
        IN  /\ (s = None \/ s = <<>>) =>
                   r = HTTPException(403, "User has no assigned role")
            /\ (s # None /\ s # <<>>
                    /\ \A c \in {"1", "2", "3"} : ~HasCode(s, c)) =>
                   r = HTTPException(403, "Insufficient permissions")

\* C24 witness: the any-role endpoint has answered "Insufficient
\* permissions" to the user whose role string is one blank.
C24_Witness ==
    /\ resp.op = "all-users"
    /\ resp.status = 403
    /\ resp.detail = "Insufficient permissions"
    /\ resp.user_id = 0
    /\ users[1].user_level_id = ADMIN
    /\ users[2].user_level_id = <<" ">>

\* Proposals with a segment that is no role code.
InvalidProposals == {<<"5", ",", "6">>, <<"1", ",", "7", ",", "9">>}

\* C25: assign-role answers a caller who is no admin 403, whatever the
\* target and the proposal, a nonexistent target and an invalid proposal
\* included; it answers an admin naming a nonexistent target 404, an
\* invalid proposal included; and it answers 400 only to an admin naming
\* an existing target.  The store is unchanged in all three cases.
C25_AssignCheckOrder ==
    \A i \in DOMAIN users, user_id \in 1..(Len(users) + 1),
       role_ids \in Proposals :
        LET out == assign_user_role(users, TokenOf(users[i]), user_id,
                                    role_ids)
        IN  /\ i \in NonAdmins(users) =>
                   out.resp.status = 403 /\ out.db = users
            /\ i \in Admins(users) /\ user_id \notin DOMAIN users =>
                   /\ out.resp.status = 404
                   /\ out.resp.detail = "User not found"
                   /\ out.db = users
            /\ out.resp.status = 400 =>
                   /\ i \in Admins(users)
                   /\ user_id \in DOMAIN users
                   /\ out.db = users
            /\ (i \in Admins(users) /\ user_id \in DOMAIN users
                    /\ role_ids \in InvalidProposals) =>
                   out.resp.status = 400

\* C25 witness: assign-role has answered 404, and in this store it answers
\* an admin's invalid proposal for a nonexistent target 404 and a
\* non-admin's 403.
C25_Witness ==
    /\ resp.op = "assign-role"
    /\ resp.status = 404
    /\ \E i \in Admins(users) :
           assign_user_role(users, TokenOf(users[i]), Len(users) + 1,
                            <<"5", ",", "6">>).resp.status = 404
    /\ \E i \in NonAdmins(users) :
           assign_user_role(users, TokenOf(users[i]), Len(users) + 1,
                            <<"5", ",", "6">>).resp.status = 403

\* The role lists a guard or a query is given: those of the predefined
\* guards, each code alone, an unknown code, the empty string and no role.
RoleLists ==
    { <<>>, <<ADMIN>>, <<MANAGER>>, <<GENERAL_USER>>, <<ADMIN, MANAGER>>,
      <<ADMIN, MANAGER, GENERAL_USER>>, << <<"5">> >>, << <<>> >>,
      <<GENERAL_USER, <<>> >> }

\* C27: for every user of the store and every role list S, has_any_role
\* (user, S) holds exactly when a guard built with S passes the user, and
\* the guard then yields the user as it is in the store; has_role(user, X)
\* equals has_any_role(user, [X]), and holds exactly when X is a trimmed
\* segment of the role string; get_user_roles gives the empty list for a
\* NULL or empty role string.
C27_QueriesAgreeWithGuard ==
    \A i \in DOMAIN users :
        LET user == users[i]
        IN  /\ \A S \in RoleLists :
                   LET dep == RoleChecker(RoleChecker_init(S), Yield(user))
                   IN  /\ has_any_role(user, S) <=> dep.ok
                       /\ dep.ok => dep.user = user
            /\ \A X \in {ADMIN, MANAGER, GENERAL_USER, <<"5">>, <<>>} :
                   has_role(user, X) <=> has_any_role(user, <<X>>)
            /\ \A c \in {"1", "2", "3", "5"} :
                   has_role(user, <<c>>) <=> HasCode(user.user_level_id, c)
            /\ (user.user_level_id = None \/ user.user_level_id = <<>>)
                   => get_user_roles(user) = <<>>

\* C27 witness: the manager-or-admin endpoint has passed the user whose
\* role string is " 2", for whom has_any_role holds with [1, 2] and
\* has_role does not with 1.
C27_Witness ==
    /\ resp.op = "manager-admin"
    /\ resp.status = 200
    /\ users[2].user_level_id = <<" ", "2">>
    /\ users[1].user_level_id = <<" ", "2">>
    /\ has_any_role(users[2], <<ADMIN, MANAGER>>)
    /\ ~has_role(users[2], ADMIN)

\* C28: a token is judged by the role string the store holds when the
\* request is handled.  On every assign-role step answered 200, the token
\* the target held before the step passes the admin-only guard on the
\* store after it exactly when the new role string has "1" as a trimmed
\* segment, and passed it on the store before exactly when the old one
\* had: a demoted admin's token stops passing and a promoted user's token
\* starts passing, with no new login.
C28_RolesReadAtRequestTime ==
    [][resp'.op = "assign-role" /\ resp'.status = 200 =>
          LET t == resp'.user_id
              token == TokenOf(users[t])
              before == admin_only_endpoint(users, token).resp.status
              after == admin_only_endpoint(users', token).resp.status
          IN  /\ before = 200 <=> HasCode(users[t].user_level_id, "1")
              /\ after = 200 <=> HasCode(resp'.new_roles, "1")
              /\ before # 200 => before = 403
              /\ after # 200 => after = 403]_vars

\* C28 witness: the seeded admin has been demoted to "3" and the seeded
\* manager promoted to "1": the admin's token is answered 403 by the
\* admin-only endpoint and the manager's 200.
C28_Witness ==
    /\ resp.op = "assign-role"
    /\ resp.status = 200
    /\ resp.user_id = 1
    /\ users[1].user_level_id = GENERAL_USER
    /\ users[2].user_level_id = ADMIN
    /\ admin_only_endpoint(users, TokenOf(users[1])).resp.status = 403
    /\ admin_only_endpoint(users, TokenOf(users[2])).resp.status = 200

\* The role strings of the store, row by row.
RoleStringsOf(db) == [i \in DOMAIN db |-> db[i].user_level_id]

C29_IdentifierMatchesOne ==
    /\ \A i, j \in DOMAIN users :
           i # j => users[i].username # users[j].email
    /\ \A identifier \in Identifiers(users) :
           /\ Cardinality({i \in DOMAIN users :
                               \/ users[i].username = identifier
                               \/ users[i].email = identifier}) <= 1
           /\ get_user_by_username_or_email(users, identifier)
                  # MultipleResultsFound

\* The last_login of the rows of a store.
LastLogins(db) == [i \in DOMAIN db |-> db[i].last_login]

\* C26: a login answered 200 sets the last_login of the user it
\* authenticates to the current time and changes nothing else in the
\* store; a login not answered 200 changes nothing; registration, /me, the
\* guarded reads and assign-role leave the last_login of every row as it
\* is.  So a step changes a user's last_login only if it is a successful
\* login of that user.
C26_LastLoginFrame ==
    /\ [](\A identifier \in Identifiers(users), password \in LoginPasswords :
             \A out \in Logins(users, identifier, password) :
                 /\ out.resp.status # 200 => out.db = users
                 /\ out.resp.status = 200 =>
                        /\ Len(out.db) = Len(users)
                        /\ \A i \in DOMAIN users :
                               IF users[i].username = out.resp.access_token.sub
                               THEN /\ Authenticates(users[i], identifier,
                                                     password)
                                    /\ out.db[i] =
                                           [users[i] EXCEPT !.last_login = now]
                               ELSE out.db[i] = users[i])
    /\ [](\A e \in ProtectedEndpoints,
             credentials \in AuthCredentials(users) :
          \A user_id \in (IF e = 7 THEN 1..(Len(users) + 1) ELSE {1}),
             role_ids \in (IF e = 7 THEN {ADMIN, <<"5">>} ELSE {ADMIN}) :
             LastLogins(Endpoint(e, users, credentials, user_id, role_ids).db)
                 = LastLogins(users))
    /\ [][/\ \A i \in DOMAIN users :
                 users'[i].last_login # users[i].last_login =>
                     /\ resp'.op \in {"login", "login-form"}
                     /\ resp'.status = 200
                     /\ resp'.access_token.sub = users[i].username
                     /\ users'[i].last_login = now
          /\ resp'.op = "register" /\ resp'.status = 201 /\ resp' # resp =>
                 users'[Len(users')].last_login = 0]_vars

\* C26 witness: bob has logged in at a later time than the admin did: bob's
\* last_login is the current time, the admin's the earlier one and the
\* manager's is NULL.
C26_Witness ==
    /\ resp.op = "login"
    /\ resp.status = 200
    /\ resp.access_token.sub = "bob"
    /\ now > 1
    /\ users[1].last_login = 1
    /\ users[2].last_login = 0
    /\ users[3].last_login = now

\* The token a login of the user at time t returns.
IssuedAt(user, t) == [TokenOf(user) EXCEPT !.exp = t + 30]

\* The token is accepted for its subject on the store.
Accepted(db, token) ==
    /\ get_current_user(db, token).ok
    /\ get_current_user(db, token).user.username = token.sub

\* C23: a token a login returned to an active user at any time up to now
\* is accepted for that user exactly when its expiry has not passed, and
\* refused 401 when it has; no login, whoever logs in and on either
\* endpoint, and no assign-role request changes whether it is accepted,
\* and no step that leaves the clock as it is does: nothing revokes a
\* token.  A token is accepted in the store its login leaves.
C23_TokenValidity ==
    /\ [](\A i \in DOMAIN users, t \in Past :
             users[i].is_active =>
                 LET token == IssuedAt(users[i], t)
                 IN  /\ Accepted(users, token) <=> now <= t + 30
                     /\ Accepted(users, token) =>
                            get_current_user(users, token).user = users[i]
                     /\ ~Accepted(users, token) =>
                            get_current_user(users, token).exc.status = 401
                     /\ \A identifier \in Identifiers(users),
                           password \in LoginPasswords :
                            \A out \in Logins(users, identifier, password) :
                                \/ out.db = users
                                \/ Accepted(out.db, token)
                                       <=> Accepted(users, token)
                     /\ \A credentials \in Tokens(users),
                           user_id \in DOMAIN users,
                           role_ids \in {GENERAL_USER, <<"1", ",", "3">>} :
                            Accepted(assign_user_role(users, credentials,
                                         user_id, role_ids).db, token)
                                <=> Accepted(users, token))
    /\ [][now' = now /\ users' # users =>
              \A i \in DOMAIN users, t \in Past :
                  users[i].is_active =>
                      (Accepted(users', IssuedAt(users[i], t))
                           <=> Accepted(users, IssuedAt(users[i], t)))]_vars
    /\ [][resp'.op \in {"login", "login-form"} /\ resp'.status = 200
              /\ resp' # resp =>
              /\ Accepted(users', resp'.access_token)
              /\ \E i \in DOMAIN users :
                     resp'.access_token = IssuedAt(users[i], now)]_vars

\* C23 witness: the admin has logged in again an hour after the first
\* login; the token of the first login has expired and is refused, and the
\* token of a login half an hour ago is still accepted.
C23_Witness ==
    /\ resp.op = "login"
    /\ resp.status = 200
    /\ resp.access_token.sub = "test_admin_user"
    /\ users[1].last_login = now
    /\ \E t1, t2 \in Past :
           /\ t1 < t2 /\ t2 < now
           /\ ~Accepted(users, IssuedAt(users[1], t1))
           /\ Accepted(users, IssuedAt(users[1], t2))

\* The password a user registered with.
PasswordOf(user) ==
    CHOOSE password \in LoginPasswords :
        user.password_hash = <<"hash", password>>

\* C21: a registered user holding "3" is answered 403 by the admin-only
\* endpoint; an admin's assign-role for that user with "1,3" or "1,2,3" is
\* answered 200, and in the store it leaves, the user's login, with the
\* username or with the email as identifier, is answered 200 and its
\* token passes the admin-only guard.
C21_PromotionEndToEnd ==
    \A a \in Admins(users), t \in DOMAIN users :
        (t > Len(SeedUsers) /\ users[t].user_level_id = GENERAL_USER) =>
            /\ admin_only_endpoint(users, TokenOf(users[t])).resp.status = 403
            /\ \A role_ids \in {<<"1", ",", "3">>,
                                 <<"1", ",", "2", ",", "3">>} :
                   LET out == assign_user_role(users, TokenOf(users[a]), t,
                                               role_ids)
                   IN  /\ out.resp.status = 200
                       /\ \A identifier \in
                                  {users[t].username, users[t].email} :
                              LET in == login(out.db,
                                            [username |-> identifier,
                                             password |-> PasswordOf(users[t])])
                              IN  /\ in.resp.status = 200
                                  /\ admin_only_endpoint(in.db,
                                         in.resp.access_token).resp.status
                                         = 200


\* C22: when two valid assign-role requests for the same target are in
\* flight together, each of them answers 200 at its commit without any
\* conflict being reported, and the target's stored role string right after
\* a commit is exactly the string that request proposed (so after both, the
\* proposal of the one that committed last), the other rows being unchanged.
C22_LastWriteWins ==
    [][\A request \in pending :
           ( /\ pending' = pending \ {request}
             /\ resp' = [assign_user_role_commit(users, request).resp
                             EXCEPT !.op = "assign-role"]
             /\ users' = assign_user_role_commit(users, request).db )
           => /\ resp'.status = 200
              /\ resp'.new_roles = request.role_ids
              /\ \A i \in DOMAIN users' :
                     users'[i].user_level_id =
                         IF users'[i].user_id = request.user_id
                         THEN request.role_ids
                         ELSE users[i].user_level_id]_vars

====
